---- MODULE Spec2Model ----
(***************************************************************************)
(* A model of faiss/utils/simdlib_emulated.h: the emulated 256-bit SIMD    *)
(* register (simd256bit) and the typed views simd16uint16, simd32uint8 and *)
(* simd8float32 with the operations defined on them.                       *)
(*                                                                         *)
(* A register is its 32 bytes.  The 16-bit view reads and writes the bytes *)
(* in the byte order of the host; a 32-bit value (uint32_t, int) is the    *)
(* vector of its 32 bits, bit 0 being the least significant; a float lane  *)
(* is the 4 bytes of its object representation.                            *)
(***************************************************************************)
EXTENDS Integers, Sequences, FiniteSets, TLC

VARIABLES
    bigEndian,   \* byte order of the host: how u16[] overlays u8[] in the union
    charSigned,  \* whether plain char is a signed type on the host
    a,           \* first operand register
    b,           \* second operand register
    thr,         \* third operand register (thresholds)
    r,           \* the register that in-place operations are applied to (*this)
    c,           \* the register returned by the last operation
    mask,        \* the uint32_t returned by the last operation
    flag,        \* the bool returned by the last operation
    bits,        \* the std::string returned by the last operation
    op,          \* the operation applied last
    hist         \* the operations applied so far, oldest first

vars == <<bigEndian, charSigned, a, b, thr, r, c, mask, flag, bits, op, hist>>

(***************************************************************************)
(* Bounds of the model.                                                    *)
(***************************************************************************)
\* number of sample vectors the 16-bit operands are drawn from
NumVecs == 9
\* number of sample vectors the operands of operation sequences are drawn from
NumSmallVecs == 4
\* longest sequence of accu_min / accu_max calls
MaxCalls == 3
\* longest sequence of + - += -= operations
MaxOps == 4
\* number of sample registers the 8-bit and float operands are drawn from
NumRegs == 8

(***************************************************************************)
(* simd256bit: the storage and its views.                                  *)
(***************************************************************************)
\* reading u16[j] of the union
u16(x, j) ==
    IF bigEndian THEN 256 * x[2 * j] + x[2 * j + 1]
                 ELSE x[2 * j] + 256 * x[2 * j + 1]

\* the register whose u16[j] is l[j] for every j
from_u16(l) ==
    [k \in 0..31 |->
        IF (k % 2 = 0) = bigEndian THEN l[k \div 2] \div 256
                                   ELSE l[k \div 2] % 256]

\* reading f32[j] of the union: the 4 bytes of the lane
f32(x, j) == [k \in 0..3 |-> x[4 * j + k]]

\* the register whose f32[j] is l[j] for every j
from_f32(l) == [k \in 0..31 |-> l[k \div 4][k % 4]]

\* conversion of an int to uint16_t and to uint8_t
to_uint16(n) == n % 65536
to_uint8(n) == n % 256

\* memset(u8, 0, 32)
clear == [k \in 0..31 |-> 0]

(***************************************************************************)
(* 32-bit integers as bit vectors.                                         *)
(***************************************************************************)
\* the 32 bits of a constant 0 <= n < 2^31
int_bits(n) == [k \in 0..31 |-> IF k < 31 THEN (n \div (2 ^ k)) % 2 ELSE 0]

\* x << s on a 32-bit integer.  The shifts of the source are 3 << (j * 2)
\* and 1 << (j + 16) on int, j <= 15: the result always fits the unsigned
\* type, so the shift is defined and the conversion to uint32_t that |=
\* applies keeps the 32 bits.
shl32(x, s) == [k \in 0..31 |-> IF k >= s THEN x[k - s] ELSE 0]

\* x | y
or32(x, y) == [k \in 0..31 |-> IF x[k] = 1 \/ y[k] = 1 THEN 1 ELSE 0]

\* ~x
not32(x) == [k \in 0..31 |-> 1 - x[k]]

Zero32 == [k \in 0..31 |-> 0]
Ones32 == [k \in 0..31 |-> 1]

(***************************************************************************)
(* simd16uint16                                                            *)
(***************************************************************************)
\* the arguments and results of std::function<uint16_t (uint16_t, uint16_t)>
\* and of std::function<uint8_t (uint8_t, uint8_t)>
uint16_t == 0..65535
uint8_t == 0..255

binary_func16(av, bv, f) ==
    from_u16([j \in 0..15 |-> f[u16(av, j), u16(bv, j)]])

operator_add_wrong(this, other) ==
    binary_func16(this, other,
        [p \in uint16_t, q \in uint16_t |-> IF p + q > 65535 THEN 65535 ELSE p + q])

operator_add(this, other) ==
    binary_func16(this, other,
        [p \in uint16_t, q \in uint16_t |-> to_uint16(p + q)])

operator_sub(this, other) ==
    binary_func16(this, other,
        [p \in uint16_t, q \in uint16_t |-> to_uint16(p - q)])

operator_add_assign(this, other) == operator_add(this, other)

operator_sub_assign(this, other) == operator_sub(this, other)

RECURSIVE ge_mask_loop_wrong(_, _, _, _)
ge_mask_loop_wrong(this, thresh, j, gem) ==
    IF j = 16 THEN gem
    ELSE ge_mask_loop_wrong(this, thresh, j + 1,
            IF u16(this, j) >= u16(thresh, j)
            THEN or32(gem, shl32(int_bits(1), j * 2))
            ELSE gem)

RECURSIVE ge_mask_loop(_, _, _, _)
ge_mask_loop(this, thresh, j, gem) ==
    IF j = 16 THEN gem
    ELSE ge_mask_loop(this, thresh, j + 1,
            IF u16(this, j) >= u16(thresh, j)
            THEN or32(gem, shl32(int_bits(3), j * 2))
            ELSE gem)

ge_mask(this, thresh) == ge_mask_loop(this, thresh, 0, int_bits(0))

le_mask_wrong(this, thresh) == ge_mask(this, thresh)

le_mask(this, thresh) == ge_mask(thresh, this)

gt_mask(this, thresh) == not32(le_mask(this, thresh))

all_gt(this, thresh) == le_mask(this, thresh) = Zero32

accu_min_wrong(this, incoming) ==
    from_u16([j \in 0..15 |->
        IF u16(incoming, j) > u16(this, j) THEN u16(incoming, j)
                                           ELSE u16(this, j)])

accu_min(this, incoming) ==
    from_u16([j \in 0..15 |->
        IF u16(incoming, j) < u16(this, j) THEN u16(incoming, j)
                                           ELSE u16(this, j)])

accu_max(this, incoming) ==
    from_u16([j \in 0..15 |->
        IF u16(incoming, j) > u16(this, j) THEN u16(incoming, j)
                                           ELSE u16(this, j)])

\* std::min(x, y) is (y < x) ? y : x and std::max(x, y) is (x < y) ? y : x
min(av, bv) ==
    binary_func16(av, bv,
        [p \in uint16_t, q \in uint16_t |-> IF q < p THEN q ELSE p])

max(av, bv) ==
    binary_func16(av, bv,
        [p \in uint16_t, q \in uint16_t |-> IF p < q THEN q ELSE p])

combine2x2_wrong(av, bv) ==
    from_u16([j \in 0..15 |->
        IF j < 8 THEN to_uint16(u16(av, j) + u16(av, j + 8))
                 ELSE to_uint16(u16(av, j - 8) + u16(bv, j))])

combine2x2(av, bv) ==
    from_u16([j \in 0..15 |->
        IF j < 8 THEN to_uint16(u16(av, j) + u16(av, j + 8))
                 ELSE to_uint16(u16(bv, j - 8) + u16(bv, j))])

RECURSIVE cmp_ge32_loop_wrong(_, _, _, _, _)
cmp_ge32_loop_wrong(d0, d1, t, j, gem) ==
    IF j = 16 THEN gem
    ELSE LET g0 == IF u16(d0, j) >= u16(t, j)
                   THEN or32(gem, shl32(int_bits(1), j)) ELSE gem
             g1 == IF u16(d1, j) >= u16(t, j)
                   THEN or32(g0, shl32(int_bits(1), j + 15)) ELSE g0
         IN  cmp_ge32_loop_wrong(d0, d1, t, j + 1, g1)

RECURSIVE cmp_ge32_loop(_, _, _, _, _)
cmp_ge32_loop(d0, d1, t, j, gem) ==
    IF j = 16 THEN gem
    ELSE LET g0 == IF u16(d0, j) >= u16(t, j)
                   THEN or32(gem, shl32(int_bits(1), j)) ELSE gem
             g1 == IF u16(d1, j) >= u16(t, j)
                   THEN or32(g0, shl32(int_bits(1), j + 16)) ELSE g0
         IN  cmp_ge32_loop(d0, d1, t, j + 1, g1)

cmp_ge32(d0, d1, t) == cmp_ge32_loop(d0, d1, t, 0, int_bits(0))

RECURSIVE cmp_le32_loop(_, _, _, _, _)
cmp_le32_loop(d0, d1, t, j, gem) ==
    IF j = 16 THEN gem
    ELSE LET g0 == IF u16(d0, j) <= u16(t, j)
                   THEN or32(gem, shl32(int_bits(1), j)) ELSE gem
             g1 == IF u16(d1, j) <= u16(t, j)
                   THEN or32(g0, shl32(int_bits(1), j + 16)) ELSE g0
         IN  cmp_le32_loop(d0, d1, t, j + 1, g1)

cmp_le32(d0, d1, t) == cmp_le32_loop(d0, d1, t, 0, int_bits(0))

(***************************************************************************)
(* Sample operands.                                                        *)
(***************************************************************************)
Splat16(x) == [j \in 0..15 |-> x]
Ramp16(base) == [j \in 0..15 |-> (base + j) % 65536]
Spike16(k, x, y) == [j \in 0..15 |-> IF j = k THEN x ELSE y]

Vecs16 ==
    << Ramp16(0), Splat16(5), Ramp16(65528), Spike16(15, 32768, 32767),
       Ramp16(100), Splat16(65535), Spike16(15, 0, 65535),
       Spike16(0, 256, 255), Ramp16(32760), Splat16(0),
       Spike16(8, 1, 2) >>

Min2(x, y) == IF x < y THEN x ELSE y

Sample16 == {Vecs16[i] : i \in 1..Min2(NumVecs, Len(Vecs16))}

SmallSample16 == {Vecs16[i] : i \in 1..Min2(NumSmallVecs, Len(Vecs16))}

NoString == << >>

(***************************************************************************)
(* Comparisons and the pairwise sum of simd16uint16.                       *)
(***************************************************************************)
InitMask ==
    /\ bigEndian \in BOOLEAN
    /\ charSigned = TRUE
    /\ a \in {from_u16(v) : v \in Sample16}
    /\ b \in {from_u16(v) : v \in Sample16}
    /\ thr \in {from_u16(v) : v \in Sample16}
    /\ r = a
    /\ c = clear
    /\ mask = Zero32
    /\ flag = FALSE
    /\ bits = NoString
    /\ op = "init"
    /\ hist = << >>

GeMask ==
    /\ op = "init"
    /\ mask' = ge_mask(a, thr)
    /\ op' = "ge_mask"
    /\ UNCHANGED <<bigEndian, charSigned, a, b, thr, r, c, flag, bits, hist>>

LeMask ==
    /\ op = "init"
    /\ mask' = le_mask(a, thr)
    /\ op' = "le_mask"
    /\ UNCHANGED <<bigEndian, charSigned, a, b, thr, r, c, flag, bits, hist>>

GtMask ==
    /\ op = "init"
    /\ mask' = gt_mask(a, thr)
    /\ op' = "gt_mask"
    /\ UNCHANGED <<bigEndian, charSigned, a, b, thr, r, c, flag, bits, hist>>

AllGt ==
    /\ op = "init"
    /\ flag' = all_gt(a, thr)
    /\ op' = "all_gt"
    /\ UNCHANGED <<bigEndian, charSigned, a, b, thr, r, c, mask, bits, hist>>

CmpGe32 ==
    /\ op = "init"
    /\ mask' = cmp_ge32(a, b, thr)
    /\ op' = "cmp_ge32"
    /\ UNCHANGED <<bigEndian, charSigned, a, b, thr, r, c, flag, bits, hist>>

CmpLe32 ==
    /\ op = "init"
    /\ mask' = cmp_le32(a, b, thr)
    /\ op' = "cmp_le32"
    /\ UNCHANGED <<bigEndian, charSigned, a, b, thr, r, c, flag, bits, hist>>

Combine2x2 ==
    /\ op = "init"
    /\ c' = combine2x2(a, b)
    /\ op' = "combine2x2"
    /\ UNCHANGED <<bigEndian, charSigned, a, b, thr, r, mask, flag, bits, hist>>

NextMask ==
    \/ GeMask
    \/ LeMask
    \/ GtMask
    \/ AllGt
    \/ CmpGe32
    \/ CmpLe32
    \/ Combine2x2

SpecMask == InitMask /\ [][NextMask]_vars

BoolBit(p) == IF p THEN 1 ELSE 0

\* C2: a.ge_mask(thresh) has bits 2j and 2j+1 both 1 when a[j] >= thresh[j]
\* (unsigned) and both 0 otherwise, for every lane j in 0..15, lane 15
\* (bits 30 and 31) included; a.ge_mask(a) is 0xFFFFFFFF.
C2_GeMask ==
    op = "ge_mask" =>
        /\ DOMAIN mask = 0..31
        /\ \A j \in 0..15 :
              /\ mask[2 * j] = BoolBit(u16(a, j) >= u16(thr, j))
              /\ mask[2 * j + 1] = BoolBit(u16(a, j) >= u16(thr, j))
        /\ (thr = a => mask = Ones32)

C2_Witness ==
    /\ op = "ge_mask"
    /\ mask[30] = 1 /\ mask[31] = 1
    /\ \E j \in 0..14 : mask[2 * j] = 0
    /\ u16(a, 15) >= 32768

\* C3: a.le_mask(thresh) equals thresh.ge_mask(a); a.gt_mask(thresh) is the
\* bitwise complement of a.le_mask(thresh); a.all_gt(thresh) is true iff
\* a[j] > thresh[j] in every lane, iff a.gt_mask(thresh) is 0xFFFFFFFF;
\* a.all_gt(a) is false.
C3_LeGtAllGt ==
    /\ op = "le_mask" =>
          /\ mask = ge_mask(thr, a)
          /\ \A j \in 0..15 :
                /\ mask[2 * j] = BoolBit(u16(a, j) <= u16(thr, j))
                /\ mask[2 * j + 1] = BoolBit(u16(a, j) <= u16(thr, j))
    /\ op = "gt_mask" =>
          /\ \A k \in 0..31 : mask[k] = 1 - le_mask(a, thr)[k]
          /\ \A j \in 0..15 :
                /\ mask[2 * j] = BoolBit(u16(a, j) > u16(thr, j))
                /\ mask[2 * j + 1] = BoolBit(u16(a, j) > u16(thr, j))
    /\ op = "all_gt" =>
          /\ flag = (\A j \in 0..15 : u16(a, j) > u16(thr, j))
          /\ flag = (gt_mask(a, thr) = Ones32)
          /\ (thr = a => flag = FALSE)

C3_Witness ==
    /\ op = "all_gt"
    /\ flag = TRUE
    /\ \E j \in 0..15 : u16(a, j) >= 32768 /\ u16(thr, j) < 32768

\* C4: cmp_ge32(d0, d1, thr) has bit j set iff d0[j] >= thr[j] and bit j+16
\* set iff d1[j] >= thr[j], for every j in 0..15 (bit 31 included); cmp_le32
\* is the same with <=; bit j of cmp_ge32(d0, d1, thr) is bit 2j of
\* d0.ge_mask(thr).
C4_Cmp32 ==
    /\ op = "cmp_ge32" =>
          /\ DOMAIN mask = 0..31
          /\ \A j \in 0..15 :
                /\ mask[j] = BoolBit(u16(a, j) >= u16(thr, j))
                /\ mask[j + 16] = BoolBit(u16(b, j) >= u16(thr, j))
                /\ mask[j] = ge_mask(a, thr)[2 * j]
    /\ op = "cmp_le32" =>
          /\ DOMAIN mask = 0..31
          /\ \A j \in 0..15 :
                /\ mask[j] = BoolBit(u16(a, j) <= u16(thr, j))
                /\ mask[j + 16] = BoolBit(u16(b, j) <= u16(thr, j))

\* d0 = [0..15], d1 = [100..115], thr = [5]*16: bit j is set iff j >= 5 and
\* bits 16..31 are all set
C4_Witness ==
    /\ op = "cmp_ge32"
    /\ a = from_u16(Ramp16(0))
    /\ b = from_u16(Ramp16(100))
    /\ thr = from_u16(Splat16(5))
    /\ \A j \in 0..15 : mask[j] = BoolBit(j >= 5)
    /\ \A j \in 16..31 : mask[j] = 1

C6_Lanes ==
    op = "combine2x2" =>
        \A j \in 0..7 :
            /\ u16(c, j) = (u16(a, j) + u16(a, j + 8)) % 65536
            /\ u16(c, j + 8) = (u16(b, j) + u16(b, j + 8)) % 65536

\* C6: combine2x2(a, b) returns c with c[j] = (a[j] + a[j+8]) mod 2^16 and
\* c[j+8] = (b[j] + b[j+8]) mod 2^16 for every j in 0..7, and leaves a and b
\* as they were.
C6_Combine2x2 ==
    /\ []C6_Lanes
    /\ [][Combine2x2 => (a' = a /\ b' = b)]_vars

C6_Witness ==
    /\ op = "combine2x2"
    /\ a # b
    /\ \E j \in 0..7 : u16(a, j) + u16(a, j + 8) > 65535
    /\ \E j \in 0..7 : u16(b, j) + u16(b, j + 8) < 65536
    /\ \A j \in 0..7 : u16(c, j) = (u16(a, j) + u16(a, j + 8)) % 65536

(***************************************************************************)
(* Sequences of + - += -= on simd16uint16.                                 *)
(***************************************************************************)
InitArith ==
    /\ bigEndian \in BOOLEAN
    /\ charSigned = TRUE
    /\ a \in {from_u16(v) : v \in SmallSample16}
    /\ b \in {from_u16(v) : v \in SmallSample16}
    /\ thr = clear
    /\ r = a
    /\ c = clear
    /\ mask = Zero32
    /\ flag = FALSE
    /\ bits = NoString
    /\ op = "init"
    /\ hist = << >>

\* the left operand of a pure operator: a, or the value returned last
Lhs(name) == IF name = "a" THEN a ELSE c

LhsNames == IF hist = << >> THEN {"a"} ELSE {"a", "c"}

\* c = lhs + b
Add ==
    /\ Len(hist) < MaxOps
    /\ \E l \in LhsNames :
          /\ c' = operator_add(Lhs(l), b)
          /\ hist' = Append(hist, [op |-> "+", lhs |-> l])
    /\ op' = "+"
    /\ UNCHANGED <<bigEndian, charSigned, a, b, thr, r, mask, flag, bits>>

\* c = lhs - b
Sub ==
    /\ Len(hist) < MaxOps
    /\ \E l \in LhsNames :
          /\ c' = operator_sub(Lhs(l), b)
          /\ hist' = Append(hist, [op |-> "-", lhs |-> l])
    /\ op' = "-"
    /\ UNCHANGED <<bigEndian, charSigned, a, b, thr, r, mask, flag, bits>>

\* c = (r += b)
AddAssign ==
    /\ Len(hist) < MaxOps
    /\ r' = operator_add_assign(r, b)
    /\ c' = r'
    /\ hist' = Append(hist, [op |-> "+=", lhs |-> "r"])
    /\ op' = "+="
    /\ UNCHANGED <<bigEndian, charSigned, a, b, thr, mask, flag, bits>>

\* c = (r -= b)
SubAssign ==
    /\ Len(hist) < MaxOps
    /\ r' = operator_sub_assign(r, b)
    /\ c' = r'
    /\ hist' = Append(hist, [op |-> "-=", lhs |-> "r"])
    /\ op' = "-="
    /\ UNCHANGED <<bigEndian, charSigned, a, b, thr, mask, flag, bits>>

NextArith ==
    \/ Add
    \/ Sub
    \/ AddAssign
    \/ SubAssign

SpecArith == InitArith /\ [][NextArith]_vars

\* how many times b has been added to r, net of the subtractions
RECURSIVE RNet(_)
RNet(h) ==
    IF h = << >> THEN 0
    ELSE LET e == h[Len(h)]
             k == RNet(SubSeq(h, 1, Len(h) - 1))
         IN  IF e.op = "+=" THEN k + 1
             ELSE IF e.op = "-=" THEN k - 1
             ELSE k

\* C5: (a + b) - b is a in every lane, + and - wrapping modulo 2^16, and
\* a += b followed by a -= b leaves a as it was.
C5_AddSub ==
    LET n == Len(hist) IN
    /\ (/\ n >= 2
        /\ hist[n - 1] = [op |-> "+", lhs |-> "a"]
        /\ hist[n] = [op |-> "-", lhs |-> "c"]) => c = a
    /\ (/\ n >= 2
        /\ hist[n - 1].op = "+="
        /\ hist[n].op = "-="
        /\ RNet(SubSeq(hist, 1, n - 2)) = 0) => (r = a /\ c = a)
    /\ (n >= 1 /\ hist[n] = [op |-> "+", lhs |-> "a"]) =>
          \A j \in 0..15 : u16(c, j) = (u16(a, j) + u16(b, j)) % 65536
    /\ \A j \in 0..15 :
          u16(r, j) = (u16(a, j) + RNet(hist) * u16(b, j)) % 65536

\* both round trips done, with a lane whose sum wrapped
C5_Witness ==
    /\ Len(hist) = 4
    /\ hist[1].op = "+=" /\ hist[2].op = "-="
    /\ hist[3] = [op |-> "+", lhs |-> "a"]
    /\ hist[4] = [op |-> "-", lhs |-> "c"]
    /\ \E j \in 0..15 : u16(a, j) + u16(b, j) > 65535
    /\ \E j \in 0..15 : u16(b, j) # 0 /\ u16(a, j) + u16(b, j) < 65536
    /\ r = a /\ c = a

(***************************************************************************)
(* accu_min and accu_max called again and again on one register.           *)
(***************************************************************************)
InitAccu ==
    /\ bigEndian \in BOOLEAN
    /\ charSigned = TRUE
    /\ a \in {from_u16(v) : v \in SmallSample16}
    /\ b = a
    /\ thr = clear
    /\ r = a
    /\ c = clear
    /\ mask = Zero32
    /\ flag = FALSE
    /\ bits = NoString
    /\ op = "init"
    /\ hist = << >>

\* r.accu_min(v); b is the caller's v after the call
AccuMin ==
    /\ Len(hist) < MaxCalls
    /\ \E v \in {from_u16(l) : l \in SmallSample16} :
          /\ r' = accu_min(r, v)
          /\ b' = v
          /\ hist' = Append(hist, [op |-> "accu_min", v |-> v])
    /\ op' = "accu_min"
    /\ UNCHANGED <<bigEndian, charSigned, a, thr, c, mask, flag, bits>>

\* r.accu_max(v); b is the caller's v after the call
AccuMax ==
    /\ Len(hist) < MaxCalls
    /\ \E v \in {from_u16(l) : l \in SmallSample16} :
          /\ r' = accu_max(r, v)
          /\ b' = v
          /\ hist' = Append(hist, [op |-> "accu_max", v |-> v])
    /\ op' = "accu_max"
    /\ UNCHANGED <<bigEndian, charSigned, a, thr, c, mask, flag, bits>>

NextAccu ==
    \/ AccuMin
    \/ AccuMax

SpecAccu == InitAccu /\ [][NextAccu]_vars

AllCalls(name) == \A i \in 1..Len(hist) : hist[i].op = name

\* the values lane j has been given: the initial one and the incoming ones
LaneValues(j) == {u16(a, j)} \cup {u16(hist[i].v, j) : i \in 1..Len(hist)}

SetMin(S) == CHOOSE x \in S : \A y \in S : x <= y
SetMax(S) == CHOOSE x \in S : \A y \in S : y <= x

\* the calls of hist applied to x, the latest call first
RECURSIVE AccuReversed(_, _)
AccuReversed(x, h) ==
    IF h = << >> THEN x
    ELSE LET e == h[Len(h)]
             y == IF e.op = "accu_min" THEN accu_min(x, e.v)
                                       ELSE accu_max(x, e.v)
         IN  AccuReversed(y, SubSeq(h, 1, Len(h) - 1))

C9_Final ==
    /\ AllCalls("accu_min") =>
          /\ \A j \in 0..15 : u16(r, j) = SetMin(LaneValues(j))
          /\ r = AccuReversed(a, hist)
    /\ AllCalls("accu_max") =>
          /\ \A j \in 0..15 : u16(r, j) = SetMax(LaneValues(j))
          /\ r = AccuReversed(a, hist)

\* C9: after any sequence of accu_min calls every lane of r is the unsigned
\* minimum of its initial value and the incoming values, whatever the order
\* of the calls; one r.accu_min(v) leaves r equal to min(r_before, v) and v
\* as it was; the same for accu_max with the maximum and max.
C9_Accu ==
    /\ []C9_Final
    /\ [][AccuMin => (r' = min(r, b') /\ b' = hist'[Len(hist')].v)]_vars
    /\ [][AccuMax => (r' = max(r, b') /\ b' = hist'[Len(hist')].v)]_vars

\* three accu_min calls whose result is none of the four vectors involved
C9_Witness ==
    /\ Len(hist) = 3
    /\ AllCalls("accu_min")
    /\ r # a
    /\ \A i \in 1..3 : r # hist[i].v
    /\ \E j \in 0..15 : u16(r, j) = u16(a, j) /\ u16(r, j) < u16(b, j)
    /\ \E j \in 0..15 : u16(a, j) >= 32768 /\ u16(r, j) < 32768

(***************************************************************************)
(* simd256bit::bin and simd32uint8                                         *)
(***************************************************************************)
\* bit k of x >= 0
bit(x, k) == (x \div (2 ^ k)) % 2

\* x & y on 8-bit values
RECURSIVE and8_from(_, _, _)
and8_from(x, y, k) ==
    IF k = 8 THEN 0
    ELSE bit(x, k) * bit(y, k) * (2 ^ k) + and8_from(x, y, k + 1)

and8(x, y) == and8_from(x, y, 0)

\* the value of byte x read through a char pointer
as_char(x) == IF charSigned /\ x >= 128 THEN x - 256 ELSE x

\* v >> s on an int, the sign bit shifted in (the low 8 bits of the result
\* of a shift by at most 7 are the same if zeros are shifted in)
sar(v, s) == v \div (2 ^ s)

\* the array filled by bin(char bits[257]), indexed from 0
bin_chars_wrong(this) ==
    [i \in 0..256 |->
        IF i < 256
        THEN 48 + (sar(as_char(this[i \div 8]), 7 - (i % 8)) % 2)
        ELSE 0]

bin_chars(this) ==
    [i \in 0..256 |->
        IF i < 256
        THEN 48 + (sar(as_char(this[i \div 8]), i % 8) % 2)
        ELSE 0]

\* std::string(const char *): the characters before the first 0
string_of(buf) ==
    LET n == CHOOSE m \in DOMAIN buf :
                 buf[m] = 0 /\ \A k \in 0..(m - 1) : buf[k] # 0
    IN  [i \in 1..n |-> buf[i - 1]]

bin(this) == string_of(bin_chars(this))

\* simd32uint8(simd256bit x) and simd16uint16(simd256bit x): the 32 bytes
\* of x copied, whatever view they were written through
as_simd32uint8(x) == [k \in 0..31 |-> x[k]]
as_simd16uint16(x) == [k \in 0..31 |-> x[k]]

binary_func8(av, bv, f) == [j \in 0..31 |-> f[av[j], bv[j]]]

lookup_2_lanes_wrong(this, idx) ==
    [j \in 0..31 |->
        IF and8(idx[j], 128) # 0 THEN 0
        ELSE this[and8(idx[j], 31)]]

lookup_2_lanes(this, idx) ==
    [j \in 0..31 |->
        IF and8(idx[j], 128) # 0 THEN 0
        ELSE LET i == and8(idx[j], 15)
             IN  IF j < 16 THEN this[i] ELSE this[16 + i]]

operator_add_mixed_wrong(this, other) ==
    operator_add(as_simd16uint16(this), other)

\* simd32uint8::operator + (simd16uint16)
operator_add_mixed(this, other) ==
    as_simd16uint16(
        binary_func8(this, as_simd32uint8(other),
            [p \in uint8_t, q \in uint8_t |-> to_uint8(p + q)]))

Splat8(x) == [k \in 0..31 |-> x]
ByteRamp(base, step) == [k \in 0..31 |-> (base + k * step) % 256]
\* [0, 1, ..., 15, 100, 101, ..., 115]
Table == [k \in 0..31 |-> IF k < 16 THEN k ELSE 100 + (k - 16)]
\* [0, 0x80, 2, 3, ...]
IdxExample == [k \in 0..31 |-> IF k = 1 THEN 128 ELSE k % 16]

Regs8 ==
    << Table, ByteRamp(0, 9), Splat8(255), Splat8(0), IdxExample,
       ByteRamp(250, 1), ByteRamp(3, 37), Splat8(128), ByteRamp(112, 5),
       ByteRamp(0, 1) >>

Sample8 == {Regs8[i] : i \in 1..Min2(NumRegs, Len(Regs8))}

InitU8 ==
    /\ bigEndian \in BOOLEAN
    /\ charSigned \in BOOLEAN
    /\ a \in Sample8
    /\ b \in Sample8 \cup {from_u16(v) : v \in SmallSample16}
    /\ thr = clear
    /\ r = a
    /\ c = clear
    /\ mask = Zero32
    /\ flag = FALSE
    /\ bits = NoString
    /\ op = "init"
    /\ hist = << >>

\* c = a.lookup_2_lanes(b)
Lookup2Lanes ==
    /\ op = "init"
    /\ c' = lookup_2_lanes(a, b)
    /\ op' = "lookup_2_lanes"
    /\ UNCHANGED <<bigEndian, charSigned, a, b, thr, r, mask, flag, bits, hist>>

\* bits = a.bin()
Bin ==
    /\ op = "init"
    /\ bits' = bin(a)
    /\ op' = "bin"
    /\ UNCHANGED <<bigEndian, charSigned, a, b, thr, r, c, mask, flag, hist>>

\* c = a + b, a read as simd32uint8 and b as simd16uint16
AddMixed ==
    /\ op = "init"
    /\ c' = operator_add_mixed(a, b)
    /\ op' = "add_mixed"
    /\ UNCHANGED <<bigEndian, charSigned, a, b, thr, r, mask, flag, bits, hist>>

NextU8 ==
    \/ Lookup2Lanes
    \/ Bin
    \/ AddMixed

SpecU8 == InitU8 /\ [][NextU8]_vars

\* C1: T.lookup_2_lanes(idx) is, at byte j, 0 when bit 7 of idx[j] is set,
\* and otherwise T[idx[j] & 0x0F] for j < 16 and T[16 + (idx[j] & 0x0F)] for
\* j >= 16: no byte crosses the two 16-byte lanes and bits 4..6 of idx[j]
\* do not matter.
C1_Lookup ==
    op = "lookup_2_lanes" =>
        /\ DOMAIN c = 0..31
        /\ \A j \in 0..31 :
              c[j] = IF b[j] >= 128 THEN 0
                     ELSE IF j < 16 THEN a[b[j] % 16]
                     ELSE a[16 + (b[j] % 16)]

C1_Witness ==
    /\ op = "lookup_2_lanes"
    /\ \E j \in 0..15 :
          /\ b[j] \in 16..127
          /\ c[j] = a[b[j] % 16]
          /\ c[j] # a[16 + (b[j] % 16)]
    /\ \E j \in 16..31 :
          /\ b[j] \in 16..127
          /\ c[j] = a[16 + (b[j] % 16)]
          /\ c[j] # a[b[j] % 16]
    /\ \E j \in 0..31 : b[j] >= 128 /\ c[j] = 0 /\ a[b[j] % 16] # 0

\* C7: r.bin() has exactly 256 characters, each '0' or '1', the one at
\* position i being '1' iff bit (i mod 8) of byte (i div 8) of r is set.
C7_Bin ==
    op = "bin" =>
        /\ Len(bits) = 256
        /\ \A i \in 0..255 :
              bits[i + 1] = IF bit(a[i \div 8], i % 8) = 1 THEN 49 ELSE 48

\* a register with bytes above 0x7F and bytes below, read through signed char
C7_Witness ==
    /\ op = "bin"
    /\ charSigned
    /\ \E k \in 0..31 : a[k] >= 128 /\ a[k] # 255
    /\ \E k \in 0..31 : a[k] \in 1..127
    /\ Len(bits) = 256

\* C10: x + y with x a simd32uint8 and y a simd16uint16 is the byte by byte
\* sum modulo 2^8 of the two registers, returned as a simd16uint16: no carry
\* goes from the low byte of a 16-bit lane into its high byte.
C10_AddMixed ==
    op = "add_mixed" =>
        /\ DOMAIN c = 0..31
        /\ \A k \in 0..31 : c[k] = (a[k] + b[k]) % 256

\* a 16-bit lane whose low bytes carry: the result is not the 16-bit sum
C10_Witness ==
    /\ op = "add_mixed"
    /\ \E j \in 0..15 :
          LET lo == IF bigEndian THEN 2 * j + 1 ELSE 2 * j
          IN  /\ a[lo] + b[lo] > 255
              /\ u16(c, j) # (u16(a, j) + u16(b, j)) % 65536
    /\ b \in {from_u16(v) : v \in SmallSample16}

(***************************************************************************)
(* simd8float32: unpacklo and unpackhi                                     *)
(***************************************************************************)
\* the register whose f32 lanes 0..7 are the 8 elements of the tuple
f32_lanes(t) == from_f32([j \in 0..7 |-> t[j + 1]])

unpacklo_wrong(av, bv) ==
    f32_lanes(<< f32(av, 0), f32(bv, 0), f32(av, 1), f32(bv, 1),
                 f32(av, 2), f32(bv, 2), f32(av, 3), f32(bv, 3) >>)

unpacklo(av, bv) ==
    f32_lanes(<< f32(av, 0), f32(bv, 0), f32(av, 1), f32(bv, 1),
                 f32(av, 4), f32(bv, 4), f32(av, 5), f32(bv, 5) >>)

unpackhi(av, bv) ==
    f32_lanes(<< f32(av, 2), f32(bv, 2), f32(av, 3), f32(bv, 3),
                 f32(av, 6), f32(bv, 6), f32(av, 7), f32(bv, 7) >>)

\* the upper 16 bits of the IEEE-754 single 0.0, 1.0, ..., 17.0 (the lower
\* 16 are 0), then of -0.0, +infinity and a quiet NaN
FloatHigh ==
    << 0, 16256, 16384, 16448, 16512, 16544, 16576, 16608, 16640, 16656,
       16672, 16688, 16704, 16720, 16736, 16752, 16768, 16776,
       32768, 32640, 32704 >>

\* the 4 bytes of the float FloatHigh[n + 1] in the byte order of the host
float_bytes(n) ==
    LET h == FloatHigh[n + 1]
        msb_first == << h \div 256, h % 256, 0, 0 >>
    IN  [k \in 0..3 |-> IF bigEndian THEN msb_first[k + 1]
                                     ELSE msb_first[4 - k]]

\* lanes base, base + 1, ..., base + 7
FloatRamp(base) == from_f32([j \in 0..7 |-> float_bytes(base + j)])
\* 1.0, -0.0, +infinity, NaN, 0.0, NaN, -0.0, 2.0
FloatSpecial ==
    f32_lanes(<< float_bytes(1), float_bytes(18), float_bytes(19),
                 float_bytes(20), float_bytes(0), float_bytes(20),
                 float_bytes(18), float_bytes(2) >>)

SampleF32 == {FloatRamp(0), FloatRamp(10), FloatSpecial} \cup Sample8

InitF32 ==
    /\ bigEndian \in BOOLEAN
    /\ charSigned = TRUE
    /\ a \in SampleF32
    /\ b \in SampleF32
    /\ thr = clear
    /\ r = a
    /\ c = clear
    /\ mask = Zero32
    /\ flag = FALSE
    /\ bits = NoString
    /\ op = "init"
    /\ hist = << >>

Applied(name) == \E i \in 1..Len(hist) : hist[i].op = name

\* c = unpacklo(a, b)
UnpackLo ==
    /\ ~Applied("unpacklo")
    /\ c' = unpacklo(a, b)
    /\ hist' = Append(hist, [op |-> "unpacklo", v |-> c'])
    /\ op' = "unpacklo"
    /\ UNCHANGED <<bigEndian, charSigned, a, b, thr, r, mask, flag, bits>>

\* c = unpackhi(a, b)
UnpackHi ==
    /\ ~Applied("unpackhi")
    /\ c' = unpackhi(a, b)
    /\ hist' = Append(hist, [op |-> "unpackhi", v |-> c'])
    /\ op' = "unpackhi"
    /\ UNCHANGED <<bigEndian, charSigned, a, b, thr, r, mask, flag, bits>>

NextF32 ==
    \/ UnpackLo
    \/ UnpackHi

SpecF32 == InitF32 /\ [][NextF32]_vars

\* how many lanes of the registers of the tuple regs hold the value x
LaneCount(regs, x) ==
    Cardinality({p \in (1..Len(regs)) \X (0..7) : f32(regs[p[1]], p[2]) = x})

LaneSet(regs) == {f32(regs[p[1]], p[2]) : p \in (1..Len(regs)) \X (0..7)}

\* C8: unpacklo(a, b) is {a0,b0,a1,b1, a4,b4,a5,b5} and unpackhi(a, b) is
\* {a2,b2,a3,b3, a6,b6,a7,b7}, every output lane an unmodified copy of an
\* input lane; the two results together hold every lane of a and of b
\* exactly once.
C8_Unpack ==
    /\ \A i \in 1..Len(hist) :
          LET v == hist[i].v IN
          /\ DOMAIN v = 0..31
          /\ hist[i].op = "unpacklo" =>
                /\ f32(v, 0) = f32(a, 0) /\ f32(v, 1) = f32(b, 0)
                /\ f32(v, 2) = f32(a, 1) /\ f32(v, 3) = f32(b, 1)
                /\ f32(v, 4) = f32(a, 4) /\ f32(v, 5) = f32(b, 4)
                /\ f32(v, 6) = f32(a, 5) /\ f32(v, 7) = f32(b, 5)
          /\ hist[i].op = "unpackhi" =>
                /\ f32(v, 0) = f32(a, 2) /\ f32(v, 1) = f32(b, 2)
                /\ f32(v, 2) = f32(a, 3) /\ f32(v, 3) = f32(b, 3)
                /\ f32(v, 4) = f32(a, 6) /\ f32(v, 5) = f32(b, 6)
                /\ f32(v, 6) = f32(a, 7) /\ f32(v, 7) = f32(b, 7)
    /\ Len(hist) = 2 =>
          \A x \in LaneSet(<<a, b>>) \cup LaneSet(<<hist[1].v, hist[2].v>>) :
              LaneCount(<<hist[1].v, hist[2].v>>, x) = LaneCount(<<a, b>>, x)

\* a = [0..7], b = [10..17]: 16 different lanes, each output once
C8_Witness ==
    /\ Len(hist) = 2
    /\ a = FloatRamp(0)
    /\ b = FloatRamp(10)
    /\ Cardinality(LaneSet(<<a, b>>)) = 16
    /\ Cardinality(LaneSet(<<hist[1].v, hist[2].v>>)) = 16
    /\ f32(c, 7) \in {f32(b, 5), f32(b, 7)}

====
